---- MODULE Spec2Model ----
(***************************************************************************)
(* DetectLight (src/detectlight.py): main() discovers the .mp4 files of a  *)
(* folder, get_frame_values() reduces every frame of every file to one     *)
(* percentile pixel value, plot_frame_values() writes one .png and one     *)
(* .csv per file.                                                          *)
(*                                                                         *)
(* The program is a single thread of control; pc is its position.  The     *)
(* file system (directory, listing), the decoder (frames, failures) and    *)
(* the garbage collector are the environment and are nondeterministic.     *)
(* Pixel values are integers; a percentile value v is held exactly as the  *)
(* integer 100 * v (linear interpolation at an integer percentile of       *)
(* integer samples is always a whole number of hundredths).                *)
(***************************************************************************)
EXTENDS Integers, Sequences, FiniteSets, TLC

VARIABLES
    dirKind,          \* what initial_path names: "dir", "missing", "notdir"
    listing,          \* the .mp4 paths of the folder, in the order glob yields them
    percentile,       \* main's percentile argument
    pc,               \* position of the program
    video_files,      \* main / get_frame_values: the discovered files
    idx,              \* get_frame_values: position of fname in video_files
    vid,              \* get_frame_values: the reader bound to vid (NoReader: unbound)
    temp_video_data,  \* get_frame_values: values of the file being read
    video_data,       \* get_frame_values / main: the list of value_dict
    pidx,             \* plot_frame_values: position of video_dict in video_data
    readers,          \* readers that were opened and not closed
    pngFiles,         \* names of the .png files written
    csvFiles,         \* name -> rows of the .csv files written
    yielded,          \* history: per file position, the frames iter_data yielded
    outcome           \* history: per file position, how reading it ended

vars == <<dirKind, listing, percentile, pc, video_files, idx, vid,
          temp_video_data, video_data, pidx, readers, pngFiles, csvFiles,
          yielded, outcome>>

----------------------------------------------------------------------------
(* Bounds of the model *)

MaxFiles == 2        \* .mp4 files in the folder
MaxFrames == 2       \* frames a file yields
MaxFrameLen == 3     \* samples in a frame (percentile reduction)
MaxPix == 3          \* largest sample value (percentile reduction)

(* main's default percentile *)
DefaultPercentile == 95

NoReader == 0

DirKinds == {"dir", "missing", "notdir"}

(* Percentiles the pipeline is run with *)
RunPercentiles == {50, DefaultPercentile}

(* Frames the decoder yields in the pipeline: the pipeline never looks into *)
(* a frame, it only hands it to the percentile reduction.                  *)
RunFrames == {<<0, 255>>, <<30, 10, 20>>}

(* Frames the percentile reduction is checked on: every non-empty frame of *)
(* at most MaxFrameLen samples in 0..MaxPix.                                *)
Frames == UNION {[1..n -> 0..MaxPix] : n \in 1..MaxFrameLen}

----------------------------------------------------------------------------
(* Text: a string is a sequence of one-character strings *)

Digits == <<"0", "1", "2", "3", "4", "5", "6", "7", "8", "9">>

RECURSIVE IntToStr(_)
IntToStr(n) ==
    IF n < 10 THEN <<Digits[n + 1]>>
    ELSE IntToStr(n \div 10) \o <<Digits[(n % 10) + 1]>>

(* str(pathlib.Path) of the i-th file of the folder *)
PathOf(i) == <<"v">> \o IntToStr(i) \o <<".", "m", "p", "4">>

Paths == {PathOf(i) : i \in 1..MaxFiles}

(* The lists of distinct paths: what glob can yield on a folder *)
Listings ==
    {s \in UNION {[1..n -> Paths] : n \in 0..MaxFiles} :
        \A i, j \in 1..Len(s) : i # j => s[i] # s[j]}

----------------------------------------------------------------------------
(* np.percentile(frame, q), linear interpolation, result times 100 *)

RECURSIVE Insert(_, _)
Insert(x, s) ==
    IF s = <<>> THEN <<x>>
    ELSE IF x <= Head(s) THEN <<x>> \o s
    ELSE <<Head(s)>> \o Insert(x, Tail(s))

RECURSIVE Sorted(_)
Sorted(s) == IF s = <<>> THEN <<>> ELSE Insert(Head(s), Sorted(Tail(s)))

(* variant of Lerp: the difference b - a is replaced by b *)
LerpNoDiff(a, b, t) == 100 * a + b * t

(* a + (b - a) * t with t in hundredths *)
Lerp(a, b, t) == 100 * a + (b - a) * t

Percentile(frame, q) ==
    LET s == Sorted(frame)
        n == Len(s)
        pos == (n - 1) * q            \* virtual index, in hundredths, 0-based
        lo == (pos \div 100) + 1
        hi == IF lo + 1 <= n THEN lo + 1 ELSE n
    IN  Lerp(s[lo], s[hi], pos % 100)

----------------------------------------------------------------------------
(* csv.writer / str(float) *)

(* variant of FormatFloat: the value is written as an integer *)
FormatTruncated(v) == IntToStr(v \div 100)

(* str of the float v / 100: shortest form, always with a fraction part *)
FormatFloat(v) ==
    LET fr == v % 100
    IN  IntToStr(v \div 100) \o <<".">> \o
        (IF fr % 10 = 0 THEN <<Digits[(fr \div 10) + 1]>>
         ELSE <<Digits[(fr \div 10) + 1], Digits[(fr % 10) + 1]>>)

(* writer.writerow([value]) for each value: one row of one field per value *)
CsvRows(values) == [i \in 1..Len(values) |-> <<FormatFloat(values[i])>>]

CsvName(fname, p) == fname \o <<"_">> \o IntToStr(p) \o <<".", "c", "s", "v">>

PngName(fname, p) == fname \o <<"_">> \o IntToStr(p) \o <<".", "p", "n", "g">>

----------------------------------------------------------------------------
(* identify_files: list(path.glob('*.mp4')); glob yields nothing when the  *)
(* path is not an existing directory                                        *)
Glob == IF dirKind = "dir" THEN listing ELSE <<>>

ValueDict(fname, values, p) ==
    [fname |-> fname, values |-> values, percentile |-> p]

(* variant of RecordValue: the value is inserted at the front *)
RecordValueFront(temp, v) == <<v>> \o temp

(* temp_video_data.append(...) *)
RecordValue(temp, v) == Append(temp, v)

(* variant of AppendEntry: the entry is inserted at the front *)
AppendEntryFront(data, entry) == <<entry>> \o data

(* video_data.append(value_dict) *)
AppendEntry(data, entry) == Append(data, entry)

(* readers something still refers to: the one bound to vid, and the one   *)
(* get_reader has just returned                                           *)
Referenced == {vid} \cup (IF pc = "gfv_bind" THEN {idx} ELSE {})

Init ==
    /\ dirKind \in DirKinds
    /\ listing \in (IF dirKind = "dir" THEN Listings ELSE {<<>>})
    /\ percentile \in RunPercentiles
    /\ pc = "main"
    /\ video_files = <<>>
    /\ idx = 1
    /\ vid = NoReader
    /\ temp_video_data = <<>>
    /\ video_data = <<>>
    /\ pidx = 1
    /\ readers = {}
    /\ pngFiles = {}
    /\ csvFiles = <<>>
    /\ yielded = [k \in 1..Len(listing) |-> <<>>]
    /\ outcome = [k \in 1..Len(listing) |-> "pending"]

(* main: video_files, no_files = identify_files(path) *)
IdentifyFiles ==
    /\ pc = "main"
    /\ video_files' = Glob
    /\ pc' = "identified"
    /\ UNCHANGED <<dirKind, listing, percentile, idx, vid, temp_video_data,
                   video_data, pidx, readers, pngFiles, csvFiles, yielded, outcome>>

(* get_frame_values is entered: the assert passes, video_data = [] *)
EnterGetFrameValues ==
    /\ pc = "identified"
    /\ video_data' = <<>>
    /\ idx' = 1
    /\ pc' = "gfv_loop"
    /\ UNCHANGED <<dirKind, listing, percentile, video_files, vid, temp_video_data,
                   pidx, readers, pngFiles, csvFiles, yielded, outcome>>

(* imageio.get_reader(fname, 'ffmpeg') returns a new open reader *)
GetReader ==
    /\ pc = "gfv_loop"
    /\ idx <= Len(video_files)
    /\ readers' = readers \cup {idx}
    /\ pc' = "gfv_bind"
    /\ UNCHANGED <<dirKind, listing, percentile, video_files, idx, vid,
                   temp_video_data, video_data, pidx, pngFiles, csvFiles,
                   yielded, outcome>>

(* imageio.get_reader raises: nothing catches it, main is left *)
GetReaderFails ==
    /\ pc = "gfv_loop"
    /\ idx <= Len(video_files)
    /\ outcome' = [outcome EXCEPT ![idx] = "open_error"]
    /\ pc' = "raised"
    /\ UNCHANGED <<dirKind, listing, percentile, video_files, idx, vid,
                   temp_video_data, video_data, pidx, readers, pngFiles,
                   csvFiles, yielded>>

(* vid = <the reader>; temp_video_data = [] *)
BindReader ==
    /\ pc = "gfv_bind"
    /\ vid' = idx
    /\ temp_video_data' = <<>>
    /\ pc' = "gfv_frames"
    /\ UNCHANGED <<dirKind, listing, percentile, video_files, idx, video_data,
                   pidx, readers, pngFiles, csvFiles, yielded, outcome>>

(* iter_data yields frame fr; its percentile is appended *)
ReduceFrame(fr) ==
    /\ pc = "gfv_frames"
    /\ temp_video_data' = RecordValue(temp_video_data, Percentile(fr, percentile))
    /\ yielded' = [yielded EXCEPT ![idx] = Append(@, fr)]
    /\ UNCHANGED <<dirKind, listing, percentile, pc, video_files, idx, vid,
                   video_data, pidx, readers, pngFiles, csvFiles, outcome>>

NextFrame ==
    /\ Len(temp_video_data) < MaxFrames
    /\ \E fr \in RunFrames : ReduceFrame(fr)

(* variant of FrameError: the error is swallowed and the values read so *)
(* far are kept as the series of the file                               *)
FrameErrorTruncates ==
    /\ pc = "gfv_frames"
    /\ outcome' = [outcome EXCEPT ![idx] = "frame_error"]
    /\ video_data' = AppendEntry(video_data,
                        ValueDict(video_files[idx], temp_video_data, percentile))
    /\ idx' = idx + 1
    /\ pc' = "gfv_loop"
    /\ UNCHANGED <<dirKind, listing, percentile, video_files, vid,
                   temp_video_data, pidx, readers, pngFiles, csvFiles, yielded>>

(* iter_data raises while decoding the next frame: nothing catches it *)
FrameError ==
    /\ pc = "gfv_frames"
    /\ outcome' = [outcome EXCEPT ![idx] = "frame_error"]
    /\ pc' = "raised"
    /\ UNCHANGED <<dirKind, listing, percentile, video_files, idx, vid,
                   temp_video_data, video_data, pidx, readers, pngFiles,
                   csvFiles, yielded>>

WriteArtifacts(d) ==
    /\ pngFiles' = pngFiles \cup {PngName(d.fname, d.percentile)}
    /\ csvFiles' = (CsvName(d.fname, d.percentile) :> CsvRows(d.values)) @@ csvFiles

(* variant of FinishFile: the artifacts are written inside the loop *)
FinishFileAndPlot ==
    /\ pc = "gfv_frames"
    /\ video_data' = AppendEntry(video_data,
                        ValueDict(video_files[idx], temp_video_data, percentile))
    /\ WriteArtifacts(ValueDict(video_files[idx], temp_video_data, percentile))
    /\ outcome' = [outcome EXCEPT ![idx] = "exhausted"]
    /\ idx' = idx + 1
    /\ pc' = "gfv_loop"
    /\ UNCHANGED <<dirKind, listing, percentile, video_files, vid,
                   temp_video_data, pidx, readers, yielded>>

(* iter_data is exhausted: value_dict is built and appended to video_data *)
FinishFile ==
    /\ pc = "gfv_frames"
    /\ video_data' = AppendEntry(video_data,
                        ValueDict(video_files[idx], temp_video_data, percentile))
    /\ outcome' = [outcome EXCEPT ![idx] = "exhausted"]
    /\ idx' = idx + 1
    /\ pc' = "gfv_loop"
    /\ UNCHANGED <<dirKind, listing, percentile, video_files, vid,
                   temp_video_data, pidx, readers, pngFiles, csvFiles, yielded>>

(* the for loop is over: return video_data; main calls plot_frame_values *)
ReturnVideoData ==
    /\ pc = "gfv_loop"
    /\ idx > Len(video_files)
    /\ vid' = NoReader
    /\ pidx' = 1
    /\ pc' = "plot"
    /\ UNCHANGED <<dirKind, listing, percentile, video_files, idx,
                   temp_video_data, video_data, readers, pngFiles, csvFiles,
                   yielded, outcome>>

(* plot_frame_values, one video_dict: savefig, then the .csv is written *)
PlotOne ==
    /\ pc = "plot"
    /\ pidx <= Len(video_data)
    /\ WriteArtifacts(video_data[pidx])
    /\ pidx' = pidx + 1
    /\ UNCHANGED <<dirKind, listing, percentile, pc, video_files, idx, vid,
                   temp_video_data, video_data, readers, yielded, outcome>>

(* plot_frame_values returns; main prints "Finished!" *)
PlotReturn ==
    /\ pc = "plot"
    /\ pidx > Len(video_data)
    /\ pc' = "finished"
    /\ UNCHANGED <<dirKind, listing, percentile, video_files, idx, vid,
                   temp_video_data, video_data, pidx, readers, pngFiles,
                   csvFiles, yielded, outcome>>

(* A reader nothing refers to any more is finalised by the interpreter, at *)
(* a time the program does not decide: the source never closes a reader.   *)
Collect ==
    /\ \E h \in readers \ Referenced : readers' = readers \ {h}
    /\ UNCHANGED <<dirKind, listing, percentile, pc, video_files, idx, vid,
                   temp_video_data, video_data, pidx, pngFiles, csvFiles,
                   yielded, outcome>>

Next ==
    \/ IdentifyFiles
    \/ EnterGetFrameValues
    \/ GetReader
    \/ GetReaderFails
    \/ BindReader
    \/ NextFrame
    \/ FrameError
    \/ FinishFile
    \/ ReturnVideoData
    \/ PlotOne
    \/ PlotReturn
    \/ Collect

Spec == Init /\ [][Next]_vars

----------------------------------------------------------------------------
(* The percentile reduction on its own: one file is being read, the        *)
(* percentile is any of 0..100 and the first frame is any frame of Frames. *)

InitPct ==
    /\ dirKind = "dir"
    /\ listing = <<PathOf(1)>>
    /\ percentile \in 0..100
    /\ pc = "gfv_frames"
    /\ video_files = listing
    /\ idx = 1
    /\ vid = 1
    /\ temp_video_data = <<>>
    /\ video_data = <<>>
    /\ pidx = 1
    /\ readers = {1}
    /\ pngFiles = {}
    /\ csvFiles = <<>>
    /\ yielded = [k \in 1..Len(listing) |-> <<>>]
    /\ outcome = [k \in 1..Len(listing) |-> "pending"]

FirstFrame ==
    /\ temp_video_data = <<>>
    /\ \E fr \in Frames : ReduceFrame(fr)

NextPct == FirstFrame

SpecPct == InitPct /\ [][NextPct]_vars

----------------------------------------------------------------------------
(* Vocabulary of the properties *)

(* Reading a .csv file back: float(text) of the one field of every row,   *)
(* times 100                                                               *)
DigitOf(c) == CHOOSE d \in 0..9 : Digits[d + 1] = c

RECURSIVE StrToInt(_)
StrToInt(s) ==
    IF Len(s) = 0 THEN 0
    ELSE 10 * StrToInt(SubSeq(s, 1, Len(s) - 1)) + DigitOf(s[Len(s)])

ParseFloat(s) ==
    LET dot == IF \E i \in 1..Len(s) : s[i] = "."
               THEN CHOOSE i \in 1..Len(s) : s[i] = "."
               ELSE Len(s) + 1
        fr == SubSeq(s, dot + 1, Len(s))
    IN  100 * StrToInt(SubSeq(s, 1, dot - 1)) +
        (IF Len(fr) = 0 THEN 0
         ELSE IF Len(fr) = 1 THEN 10 * DigitOf(fr[1])
         ELSE 10 * DigitOf(fr[1]) + DigitOf(fr[2]))

ReadBack(rows) == [i \in 1..Len(rows) |-> ParseFloat(rows[i][1])]

Range(s) == {s[i] : i \in 1..Len(s)}

Min(s) == CHOOSE x \in Range(s) : \A y \in Range(s) : x <= y

Max(s) == CHOOSE x \in Range(s) : \A y \in Range(s) : y <= x

Ended == pc \in {"finished", "raised"}

GfvEnded == pc \in {"plot", "finished", "raised"}

InGfv == pc \in {"gfv_loop", "gfv_bind", "gfv_frames"}

SeriesOf(frames) == [i \in 1..Len(frames) |-> Percentile(frames[i], percentile)]

NoArtifact == pngFiles = {} /\ DOMAIN csvFiles = {}

----------------------------------------------------------------------------
(* C1: failure isolation: when the run has ended, every discovered file    *)
(* has been processed and has its slot in the result, a file that did not  *)
(* fail holding its full series: a failure on file i never aborts the      *)
(* processing of files i+1..n.  The code lets the exception leave          *)
(* get_frame_values, so this is violated.                                  *)
C1_FailureIsolation ==
    Ended =>
        \A k \in 1..Len(video_files) :
            /\ outcome[k] # "pending"
            /\ k <= Len(video_data)
            /\ outcome[k] = "exhausted" =>
                   /\ video_data[k].fname = video_files[k]
                   /\ video_data[k].values = SeriesOf(yielded[k])

(* C2: cardinality: whenever get_frame_values has finished, by return or   *)
(* by error, the result has one entry per discovered file.  Violated by    *)
(* the runs in which a file fails.                                         *)
C2_Cardinality == GfvEnded => Len(video_data) = Len(video_files)

(* C3: ordering: at every point the result is a prefix of the file list in *)
(* discovery order: entry k is the entry of file k, and inside             *)
(* get_frame_values exactly the files before the current one have an entry *)
C3_Ordering ==
    /\ Len(video_data) <= Len(video_files)
    /\ \A k \in 1..Len(video_data) : video_data[k].fname = video_files[k]
    /\ InGfv => Len(video_data) = idx - 1
    /\ pc \in {"plot", "finished"} => Len(video_data) = Len(video_files)

C3_Witness ==
    /\ pc = "finished"
    /\ Len(video_data) >= 2
    /\ video_data[1].fname = PathOf(2)
    /\ video_data[2].fname = PathOf(1)

(* C4: per-file series: the series being built, and the values of every    *)
(* entry, hold exactly one value per frame the file yielded, value i the   *)
(* percentile of frame i; while a file is read the series only grows by    *)
(* one value at its end.                                                   *)
C4_SeriesMatchFrames ==
    /\ pc = "gfv_frames" => temp_video_data = SeriesOf(yielded[idx])
    /\ \A k \in 1..Len(video_data) :
           /\ video_data[k].values = SeriesOf(yielded[k])
           /\ video_data[k].percentile = percentile

C4_AppendOnly ==
    (pc = "gfv_frames" /\ pc' = "gfv_frames") =>
        \/ temp_video_data' = temp_video_data
        \/ /\ Len(temp_video_data') = Len(temp_video_data) + 1
           /\ SubSeq(temp_video_data', 1, Len(temp_video_data)) = temp_video_data

(* C4: per-file series: the series always match the yielded frames, and   *)
(* every step of reading a file leaves the series alone or appends one     *)
(* value at its end.                                                       *)
C4_PerFileSeries == [] C4_SeriesMatchFrames /\ [][C4_AppendOnly]_vars

C4_Witness ==
    /\ Len(video_data) >= 2
    /\ Len(video_data[1].values) >= 2
    /\ Len(video_data[2].values) >= 2
    /\ video_data[1].values # video_data[2].values
    /\ video_data[1].values[1] # video_data[1].values[2]

(* C5: no silent truncation: every entry of the result, and every .csv     *)
(* file written, belongs to a file whose frames were exhausted, and covers *)
(* all the frames the file yielded; a file that failed has no entry.       *)
C5_NoSilentTruncation ==
    /\ \A k \in 1..Len(video_data) :
           /\ outcome[k] = "exhausted"
           /\ Len(video_data[k].values) = Len(yielded[k])
    /\ \A k \in 1..Len(video_files) :
           CsvName(video_files[k], percentile) \in DOMAIN csvFiles =>
               /\ outcome[k] = "exhausted"
               /\ Len(csvFiles[CsvName(video_files[k], percentile)]) = Len(yielded[k])
    /\ DOMAIN csvFiles \subseteq
           {CsvName(video_files[k], percentile) : k \in 1..Len(video_files)}

C5_Witness ==
    /\ pc = "raised"
    /\ outcome[idx] = "frame_error"
    /\ Len(temp_video_data) >= 1
    /\ Len(video_data) >= 1

(* C6: reader release: at most one reader is open at any time, and none is *)
(* open once the run has ended.  The code never closes a reader, so this   *)
(* is violated.                                                            *)
C6_ReaderRelease ==
    /\ Cardinality(readers) <= 1
    /\ Ended => readers = {}

(* C7: invalid discovery root: when the path is not an existing directory  *)
(* the run never gets past discovery.  glob yields nothing there and the   *)
(* run goes on, so this is violated.                                       *)
C7_InvalidRootFatal == dirKind # "dir" => pc \in {"main", "raised"}

(* C8: percentile range: every reduced value lies between the minimum and  *)
(* the maximum of its frame; percentile 0 gives the minimum and percentile *)
(* 100 the maximum (values are in hundredths).                             *)
C8_PercentileRange ==
    pc = "gfv_frames" =>
        \A i \in 1..Len(temp_video_data) :
            LET fr == yielded[idx][i]
                v == temp_video_data[i]
            IN  /\ 100 * Min(fr) <= v
                /\ v <= 100 * Max(fr)
                /\ percentile = 0 => v = 100 * Min(fr)
                /\ percentile = 100 => v = 100 * Max(fr)

C8_Witness ==
    /\ pc = "gfv_frames"
    /\ percentile = DefaultPercentile
    /\ Len(temp_video_data) = 1
    /\ 100 * Min(yielded[idx][1]) < temp_video_data[1]
    /\ temp_video_data[1] < 100 * Max(yielded[idx][1])
    /\ temp_video_data[1] % 100 # 0

(* C9: tabular round trip: every series already handed to the .csv sink    *)
(* has its own file, named {fname}_{percentile}.csv, with one one-field    *)
(* row per value and no header; the rows read back give the values in the  *)
(* same order.                                                             *)
C9_CsvRoundTrip ==
    pc \in {"plot", "finished"} =>
        /\ Cardinality(DOMAIN csvFiles) = pidx - 1
        /\ \A k \in 1..(pidx - 1) :
               LET d == video_data[k]
                   name == d.fname \o <<"_">> \o IntToStr(d.percentile)
                              \o <<".", "c", "s", "v">>
               IN  /\ name \in DOMAIN csvFiles
                   /\ Len(csvFiles[name]) = Len(d.values)
                   /\ \A i \in 1..Len(d.values) : Len(csvFiles[name][i]) = 1
                   /\ ReadBack(csvFiles[name]) = d.values

C9_Witness ==
    /\ pc = "finished"
    /\ Cardinality(DOMAIN csvFiles) >= 2
    /\ \E k \in 1..Len(video_data) :
           /\ Len(video_data[k].values) >= 2
           /\ video_data[k].values[1] % 100 # 0
           /\ video_data[k].values[2] % 100 = 0

(* C10: phase ordering: an artifact exists only once every discovered file *)
(* has been read to its end and get_frame_values has returned; a run in    *)
(* which a file fails writes no artifact at all.                           *)
C10_PhaseOrdering ==
    /\ ~NoArtifact =>
           /\ pc \in {"plot", "finished"}
           /\ \A k \in 1..Len(video_files) : outcome[k] = "exhausted"
    /\ pc = "raised" => NoArtifact

C10_Witness ==
    /\ pc = "raised"
    /\ Len(video_data) >= 1
    /\ Len(video_data[1].values) >= 1
    /\ NoArtifact

====
